---- MODULE Spec2Model ----
(***************************************************************************)
(* ExpandedDisplay (src/src/display/expanded_display.rs): the renderer of  *)
(* records in the 'expanded display mode'.                                 *)
(*                                                                         *)
(* A string is a sequence of characters; a character is a one-character    *)
(* TLA+ string, except EACUTE, which stands for the two-byte character     *)
(* U+00E9.  Len(s) is therefore the number of chars of s (s.chars().count()*)
(* in the source) and ByteLen(s) its number of UTF-8 bytes (s.len()).      *)
(***************************************************************************)
EXTENDS Integers, Sequences, FiniteSets, TLC

VARIABLES
    fields,                  \* ExpandedDisplay.fields: Vec<String>
    records,                 \* ExpandedDisplay.records: Vec<Vec<String>>
    format_record_splitter,  \* ExpandedDisplay.format_record_splitter (the name of the fn)
    format_value,            \* ExpandedDisplay.format_value (the name of the fn)
    out,                     \* what the last call of fmt wrote to the Formatter, one entry per writeln!
    result,                  \* how the last call of fmt ended: "none" (no call yet), "ok", "panic"
    head_calls,              \* the arguments format_record_splitter was called with by the last fmt
    dirty,                   \* a configuration call was made since the last fmt (or since new)
    last_head_arg,           \* the argument of the last format_record_head call ("none": no call)
    last_value_arg           \* the fn installed by the last format_value/format_value_in_one_line call

vars == <<fields, records, format_record_splitter, format_value, out, result,
          head_calls, dirty, last_head_arg, last_value_arg>>

----------------------------------------------------------------------------
(* Bounds of the model. *)

MaxFields == 2
MaxRecords == 2
MaxHeaderLen == 2
MaxValueLen == 3

----------------------------------------------------------------------------
(* Characters and strings. *)

NL == "\n"
DQ == "\""
SQ == "'"
BS == "\\"
SP == " "
EACUTE == "U+00E9"

\* The characters the headers and the values of the model are made of.
HeaderChars == {"a", EACUTE, NL, DQ}
ValueChars == {"b", NL}

StringsUpTo(chars, n) == UNION {[1..k -> chars] : k \in 0..n}

\* char::len_utf8
Utf8Len(c) == IF c = EACUTE THEN 2 ELSE 1

\* str::len: the length in bytes
RECURSIVE ByteLen(_)
ByteLen(s) == IF s = <<>> THEN 0 ELSE Utf8Len(Head(s)) + ByteLen(Tail(s))

RECURSIVE Concat(_)
Concat(ss) == IF ss = <<>> THEN <<>> ELSE Head(ss) \o Concat(Tail(ss))

\* EscapeChar with the line break left as it is.
EscapeChar_KeepsNL(c, escape_single_quote) ==
    IF c = DQ THEN <<BS, DQ>>
    ELSE IF c = BS THEN <<BS, BS>>
    ELSE IF c = SQ /\ escape_single_quote THEN <<BS, SQ>>
    ELSE <<c>>

\* char::escape_debug_ext on the characters of the model: line break, quotes and
\* backslash become a backslash sequence, a printable character stays as it is.
EscapeChar(c, escape_single_quote) ==
    IF c = NL THEN <<BS, "n">>
    ELSE IF c = DQ THEN <<BS, DQ>>
    ELSE IF c = BS THEN <<BS, BS>>
    ELSE IF c = SQ /\ escape_single_quote THEN <<BS, SQ>>
    ELSE <<c>>

\* format!("{:?}", f): <str as Debug>::fmt, the escaped string between two quotes
\* (a single quote is not escaped).
DebugFmt(s) ==
    <<DQ>> \o Concat([i \in 1..Len(s) |-> EscapeChar(s[i], FALSE)]) \o <<DQ>>

\* str::escape_debug().to_string()
EscapeDebug(s) == Concat([i \in 1..Len(s) |-> EscapeChar(s[i], TRUE)])

\* Iterator::skip(n).take(m) over the chars of s
SkipTake(s, n, m) ==
    LET lo == n + 1
        hi == IF n + m < Len(s) THEN n + m ELSE Len(s)
    IN  SubSeq(s, lo, hi)

\* The closure of fmt that normalises a header:
\*   escaped.chars().skip(1).take(escaped.len() - 1 - 1).collect()
\* escaped.len() is a length in BYTES, take counts chars.
NormalizeField(f) ==
    LET escaped == DebugFmt(f)
    IN  SkipTake(escaped, 1, ByteLen(escaped) - 1 - 1)

NormalizedFields(fs) == [i \in 1..Len(fs) |-> NormalizeField(fs[i])]

Max(a, b) == IF a >= b THEN a ELSE b

\* MaxFieldWidth with the labels measured in bytes (f.len()).
RECURSIVE MaxFieldWidth_Bytes(_)
MaxFieldWidth_Bytes(labels) ==
    IF labels = <<>> THEN 0
    ELSE Max(ByteLen(Head(labels)), MaxFieldWidth_Bytes(Tail(labels)))

\* fields.iter().map(|f| f.chars().count()).max().unwrap_or_default()
RECURSIVE MaxFieldWidth(_)
MaxFieldWidth(labels) ==
    IF labels = <<>> THEN 0
    ELSE Max(Len(Head(labels)), MaxFieldWidth(Tail(labels)))

\* The position of the first line break of s, 0 when there is none.
RECURSIVE FirstNL(_, _)
FirstNL(s, i) ==
    IF i > Len(s) THEN 0 ELSE IF s[i] = NL THEN i ELSE FirstNL(s, i + 1)

\* Lines as str::split('\n') cuts: a closing line break opens an empty last line.
RECURSIVE Lines_Split(_)
Lines_Split(s) ==
    LET i == FirstNL(s, 1)
    IN  IF i = 0 THEN <<s>>
        ELSE <<SubSeq(s, 1, i - 1)>> \o Lines_Split(SubSeq(s, i + 1, Len(s)))

\* str::lines: the lines of s, each without its line break; the last line break
\* of a string that ends with one closes the last line and opens no empty one.
RECURSIVE Lines(_)
Lines(s) ==
    IF s = <<>> THEN <<>>
    ELSE LET i == FirstNL(s, 1)
         IN  IF i = 0 THEN <<s>>
             ELSE <<SubSeq(s, 1, i - 1)>> \o Lines(SubSeq(s, i + 1, Len(s)))

\* "{:width$}" of a str: filled with spaces on the right up to width chars,
\* never truncated.
Pad(s, width) ==
    IF Len(s) >= width THEN s ELSE s \o [i \in 1..(width - Len(s)) |-> SP]

Separator == <<SP, "|", SP>>

\* format_args!("{:width$} | {}", field, value, width = max_field_width)
FieldLine(field, value, width) == Pad(field, width) \o Separator \o value

\* write_record_line without its case of the empty value.
WriteRecordLine_NoEmptyCase(field, value, max_field_width) ==
    LET ls == Lines(value)
    IN  [i \in 1..Len(ls) |->
            FieldLine(IF i = 1 THEN field ELSE <<>>, ls[i], max_field_width)]

\* write_record_line: the texts of the writeln! calls it makes, in order.
WriteRecordLine(field, value, max_field_width) ==
    IF value = <<>>
    THEN <<FieldLine(field, value, max_field_width)>>
    ELSE LET ls == Lines(value)
         IN  [i \in 1..Len(ls) |->
                 FieldLine(IF i = 1 THEN field ELSE <<>>, ls[i], max_field_width)]

----------------------------------------------------------------------------
(* The formatters.  A fn pointer is modelled by its name. *)

DigitChar(d) ==
    CASE d = 0 -> "0" [] d = 1 -> "1" [] d = 2 -> "2" [] d = 3 -> "3" [] d = 4 -> "4"
      [] d = 5 -> "5" [] d = 6 -> "6" [] d = 7 -> "7" [] d = 8 -> "8" [] d = 9 -> "9"

\* Display of a usize
RECURSIVE Decimal(_)
Decimal(i) ==
    IF i < 10 THEN <<DigitChar(i)>> ELSE Decimal(i \div 10) \o <<DigitChar(i % 10)>>

\* The fns a caller passes to format_record_head, and the default one of new.
UserHeadFns == {"user_head"}
HeadFns == {"default_head"} \cup UserHeadFns

\* The fns a caller passes to format_value, the default one of new and the one
\* format_value_in_one_line installs.
UserValueFns == {"user_value"}
ValueFns == {"identity", "escape_debug"} \cup UserValueFns

\* (self.format_record_splitter)(i)
ApplyHead(f, i) ==
    IF f = "default_head"
    THEN <<"-", "[", SP, "R", "E", "C", "O", "R", "D", SP>> \o Decimal(i) \o <<SP, "]", "-">>
    ELSE <<"#">> \o Decimal(i)                  \* |i| format!("#{}", i)

\* s.replace('\n', "")
RECURSIVE RemoveNL(_)
RemoveNL(s) ==
    IF s = <<>> THEN <<>>
    ELSE (IF Head(s) = NL THEN <<>> ELSE <<Head(s)>>) \o RemoveNL(Tail(s))

\* (self.format_value)(value.clone())
ApplyValue(f, s) ==
    IF f = "identity" THEN s
    ELSE IF f = "escape_debug" THEN EscapeDebug(s)
    ELSE RemoveNL(s)                            \* |s| s.replace('\n', "")

----------------------------------------------------------------------------
(* fmt *)

\* One writeln!: the text written before the line break, with the record (from 0)
\* and the field (from 1; 0 is the record head) it was written for.
Write(rec, fld, text) == [rec |-> rec, fld |-> fld, text |-> text]

\* The inner loop of fmt for one (value, field) pair.
FieldWrites(rec, fld, value, labels, width, fv) ==
    LET texts == WriteRecordLine(labels[fld], ApplyValue(fv, value), width)
    IN  [k \in 1..Len(texts) |-> Write(rec, fld, texts[k])]

Min(a, b) == IF a <= b THEN a ELSE b

\* RecordWrites with the record head numbered from 1.
RecordWrites_OneBased(rec, record, labels, width, frs, fv) ==
    <<Write(rec, 0, ApplyHead(frs, rec + 1))>>
    \o Concat([j \in 1..Min(Len(record), Len(labels)) |->
                  FieldWrites(rec, j, record[j], labels, width, fv)])

\* The body of the outer loop of fmt for the record of index rec, past the
\* assert_eq!: the writeln! of the record head, then the fields of
\* record.iter().zip(fields.iter()).
RecordWrites(rec, record, labels, width, frs, fv) ==
    <<Write(rec, 0, ApplyHead(frs, rec))>>
    \o Concat([j \in 1..Min(Len(record), Len(labels)) |->
                  FieldWrites(rec, j, record[j], labels, width, fv)])

\* The assertion weakened to a record that is not longer than the headers.
ShapeOk_NotLonger(record, labels) == Len(record) <= Len(labels)

\* assert_eq!(record.len(), fields.len())
ShapeOk(record, labels) == Len(record) = Len(labels)

\* Written for a fmt that checks every record before it writes the first one.
Written_CheckedFirst(recs, labels, i) ==
    IF \E k \in i..Len(recs) : ~ShapeOk(recs[k], labels) THEN 0 ELSE Len(recs)

\* The number of records fmt writes before it stops: all of them, or those
\* before the first one that fails the assert_eq!.
RECURSIVE Written(_, _, _)
Written(recs, labels, i) ==
    IF i > Len(recs) THEN Len(recs)
    ELSE IF ~ShapeOk(recs[i], labels) THEN i - 1
    ELSE Written(recs, labels, i + 1)

\* fmt that stores the formatted values back into the records.
Render_StoresFormatted ==
    /\ result # "panic"
    /\ LET labels == NormalizedFields(fields)
           max_field_width == MaxFieldWidth(labels)
           n == Written(records, labels, 1)
       IN  /\ out' = Concat([i \in 1..n |->
                        RecordWrites(i - 1, records[i], labels, max_field_width,
                                     format_record_splitter, format_value)])
           /\ head_calls' = [i \in 1..n |-> i - 1]
           /\ result' = IF n < Len(records) THEN "panic" ELSE "ok"
           /\ records' = [i \in 1..Len(records) |->
                             IF i <= n
                             THEN [j \in 1..Len(records[i]) |->
                                      ApplyValue(format_value, records[i][j])]
                             ELSE records[i]]
    /\ dirty' = FALSE
    /\ UNCHANGED <<fields, format_record_splitter, format_value,
                   last_head_arg, last_value_arg>>

\* <ExpandedDisplay as Display>::fmt
Render ==
    /\ result # "panic"
    /\ LET labels == NormalizedFields(fields)
           max_field_width == MaxFieldWidth(labels)
           n == Written(records, labels, 1)
       IN  /\ out' = Concat([i \in 1..n |->
                        RecordWrites(i - 1, records[i], labels, max_field_width,
                                     format_record_splitter, format_value)])
           /\ head_calls' = [i \in 1..n |-> i - 1]
           /\ result' = IF n < Len(records) THEN "panic" ELSE "ok"
    /\ dirty' = FALSE
    /\ UNCHANGED <<fields, records, format_record_splitter, format_value,
                   last_head_arg, last_value_arg>>

\* ExpandedDisplay::format_record_head
FormatRecordHead(f) ==
    /\ result # "panic"
    /\ format_record_splitter' = f
    /\ last_head_arg' = f
    /\ dirty' = TRUE
    /\ UNCHANGED <<fields, records, format_value, out, result, head_calls, last_value_arg>>

\* ExpandedDisplay::format_value
FormatValue(f) ==
    /\ result # "panic"
    /\ format_value' = f
    /\ last_value_arg' = f
    /\ dirty' = TRUE
    /\ UNCHANGED <<fields, records, format_record_splitter, out, result, head_calls,
                   last_head_arg>>

\* format_value_in_one_line that leaves a formatter of the caller in place.
FormatValueInOneLine_KeepsUser ==
    /\ result # "panic"
    /\ format_value' = IF format_value = "identity" THEN "escape_debug" ELSE format_value
    /\ last_value_arg' = "escape_debug"
    /\ dirty' = TRUE
    /\ UNCHANGED <<fields, records, format_record_splitter, out, result, head_calls,
                   last_head_arg>>

\* ExpandedDisplay::format_value_in_one_line
FormatValueInOneLine ==
    /\ result # "panic"
    /\ format_value' = "escape_debug"
    /\ last_value_arg' = "escape_debug"
    /\ dirty' = TRUE
    /\ UNCHANGED <<fields, records, format_record_splitter, out, result, head_calls,
                   last_head_arg>>

\* ExpandedDisplay::new: the instance made of T::headers() and of the fields() of
\* every item of iter.
New(header, data) ==
    /\ fields = header
    /\ records = data
    /\ format_record_splitter = "default_head"
    /\ format_value = "identity"
    /\ out = <<>>
    /\ result = "none"
    /\ head_calls = <<>>
    /\ dirty = FALSE
    /\ last_head_arg = "none"
    /\ last_value_arg = "none"

----------------------------------------------------------------------------
(* The inputs of new. *)

\* Spec: the shape of the data varies, its text is taken from small pools.  The
\* headers of a type are consecutive entries of HeaderCycle, from any of them on.
HeaderCycle == <<(<<"a">>), <<EACUTE, NL>>, <<DQ>>>>
ValuePool == {<<>>, <<"b", NL, "b">>}
Filler == <<"b", NL>>

SeqsUpTo(S, n) == UNION {[1..k -> S] : k \in 0..n}

\* T::headers()
HeaderLists ==
    {[j \in 1..n |-> HeaderCycle[((start + j - 2) % Len(HeaderCycle)) + 1]] :
        n \in 0..MaxFields, start \in 1..Len(HeaderCycle)}

\* The items of a Tabled type whose fields() agrees with its headers().
ConsistentData(header) == SeqsUpTo([1..Len(header) -> ValuePool], MaxRecords)

\* The items of a Tabled type whose fields() has any length.
AnyShapeData == SeqsUpTo(UNION {[1..k -> {Filler}] : k \in 0..MaxFields}, MaxRecords)

Init ==
    \E header \in HeaderLists :
        \E data \in ConsistentData(header) \cup AnyShapeData :
            New(header, data)

\* SpecText: one record of one field, the text of the header and of the value varies.
InitText ==
    \E h \in StringsUpTo(HeaderChars, MaxHeaderLen) :
        \E v \in StringsUpTo(ValueChars, MaxValueLen) :
            New(<<h>>, <<(<<v>>)>>)

Next ==
    \/ Render
    \/ \E f \in UserHeadFns : FormatRecordHead(f)
    \/ \E f \in UserValueFns : FormatValue(f)
    \/ FormatValueInOneLine

Spec == Init /\ [][Next]_vars

SpecText == InitText /\ [][Next]_vars

----------------------------------------------------------------------------
(* Vocabulary of the properties. *)

\* The state right after a call of fmt: out is what fmt wrote under the
\* formatters now installed.
Rendered == result # "none" /\ ~dirty

\* The records the last fmt wrote (the indices, from 1, into records).
WrittenRecords == 1..Len(head_calls)

\* The writes of the last fmt for one field of one record, in order.
WritesFor(rec, fld) == SelectSeq(out, LAMBDA w : w.rec = rec /\ w.fld = fld)

Spaces(n) == [i \in 1..n |-> SP]

\* The alignment width read off the headers alone: the greatest char count of a
\* normalised label, 0 without headers.
LabelLens == {Len(NormalizeField(fields[j])) : j \in 1..Len(fields)}
AlignWidth == IF LabelLens = {} THEN 0 ELSE CHOOSE m \in LabelLens : \A l \in LabelLens : l <= m

\* The parts of a field line around the separator bar, for a label of w chars.
LabelPart(text, w) == SubSeq(text, 1, w)
BarPart(text, w) == SubSeq(text, w + 1, w + 3)
ValuePart(text, w) == SubSeq(text, w + 4, Len(text))

\* The record head new asks for by default: "-[ RECORD i ]-".
DefaultHeadText(i) ==
    <<"-", "[", SP, "R", "E", "C", "O", "R", "D", SP>> \o Decimal(i) \o <<SP, "]", "-">>

\* The number of line breaks of s.
CountNL(s) == Cardinality({i \in 1..Len(s) : s[i] = NL})

HasNL(s) == \E i \in 1..Len(s) : s[i] = NL

EndsWithNL(s) == s # <<>> /\ s[Len(s)] = NL

\* The strings of ss with a line break between each two.
RECURSIVE JoinNL(_)
JoinNL(ss) ==
    IF ss = <<>> THEN <<>>
    ELSE IF Len(ss) = 1 THEN ss[1]
    ELSE ss[1] \o <<NL>> \o JoinNL(Tail(ss))

\* The formatted value of a field of a record, under the value formatter installed.
Formatted(i, j) == ApplyValue(format_value, records[i][j])

\* The first of the field's lines carries the label and the others an empty label,
\* all padded to the alignment width and followed by the bar.
LabelsOnlyOnFirst(ws, j) ==
    LET label == NormalizeField(fields[j])
        w == AlignWidth
        first == label \o Spaces(w - Len(label))
    IN  \A k \in 1..Len(ws) :
            /\ Len(ws[k].text) >= w + 3
            /\ BarPart(ws[k].text, w) = Separator
            /\ LabelPart(ws[k].text, w) = IF k = 1 THEN first ELSE Spaces(w)

----------------------------------------------------------------------------
(* C1 *)

\* C1, as claimed: a non-empty formatted value with k line breaks is written as
\* exactly k+1 lines, the first with the label and the others with an empty
\* padded label, also when the value ends with a line break.
C1_AsClaimed ==
    Rendered =>
        \A i \in WrittenRecords : \A j \in 1..Len(fields) :
            LET v == Formatted(i, j)
                ws == WritesFor(i - 1, j)
            IN  v # <<>> =>
                    /\ Len(ws) = CountNL(v) + 1
                    /\ LabelsOnlyOnFirst(ws, j)

\* C1, amended: a non-empty formatted value with k line breaks is written as k+1
\* lines when it does not end with a line break and as k lines when it does (the
\* closing line break opens no line); the lines are the pieces of the value
\* between its line breaks, the first with the label and the others with an
\* empty padded label.
C1_Lines ==
    Rendered =>
        \A i \in WrittenRecords : \A j \in 1..Len(fields) :
            LET v == Formatted(i, j)
                ws == WritesFor(i - 1, j)
            IN  v # <<>> =>
                    /\ Len(ws) = IF EndsWithNL(v) THEN CountNL(v) ELSE CountNL(v) + 1
                    /\ LabelsOnlyOnFirst(ws, j)
                    /\ \A k \in 1..Len(ws) : ~HasNL(ws[k].text)
                    /\ JoinNL([k \in 1..Len(ws) |-> ValuePart(ws[k].text, AlignWidth)])
                           = IF EndsWithNL(v) THEN SubSeq(v, 1, Len(v) - 1) ELSE v

\* A value of two line breaks that ends with one was written, as two lines.
C1_Witness ==
    /\ Rendered
    /\ Len(fields) = 1
    /\ 1 \in WrittenRecords
    /\ CountNL(Formatted(1, 1)) = 2
    /\ EndsWithNL(Formatted(1, 1))
    /\ Len(WritesFor(0, 1)) = 2

----------------------------------------------------------------------------
(* C2 *)

\* The escaped form of a header without the quote the escape format adds at
\* each end.
EscapedBody(h) == SubSeq(DebugFmt(h), 2, Len(DebugFmt(h)) - 1)

\* C2: the label fmt uses for a header is its debug-escaped form without the
\* leading and the trailing quote, and holds no line break.
C2_LabelIsEscapedBody ==
    Rendered =>
        \A j \in 1..Len(fields) :
            /\ NormalizeField(fields[j]) = EscapedBody(fields[j])
            /\ ~HasNL(NormalizeField(fields[j]))

----------------------------------------------------------------------------
(* C3 *)

\* C3: every field line of every record written has, before the bar, a label
\* portion of exactly AlignWidth chars (the label of its field on the first line
\* of the field, spaces on the others), AlignWidth being read off the headers
\* alone and counted in chars; this whatever formatters were installed.
C3_LabelWidth ==
    result # "none" =>
        LET w == AlignWidth
            padded == [j \in 1..Len(fields) |->
                          NormalizeField(fields[j]) \o Spaces(w - Len(NormalizeField(fields[j])))]
        IN  /\ MaxFieldWidth(NormalizedFields(fields)) = w
            /\ \A p \in 1..Len(out) :
                   out[p].fld > 0 =>
                       /\ Len(out[p].text) >= w + 3
                       /\ BarPart(out[p].text, w) = Separator
                       /\ LabelPart(out[p].text, w) =
                              IF p > 1 /\ out[p - 1].rec = out[p].rec /\ out[p - 1].fld = out[p].fld
                              THEN Spaces(w)
                              ELSE padded[out[p].fld]

\* Two records of two fields were written, the labels differ in length and the
\* longer one holds a two-byte char; a field has a continuation line, another an
\* empty value.
C3_Witness ==
    /\ result = "ok"
    /\ Len(records) = 2
    /\ fields = <<(<<"a">>), <<EACUTE, NL>>>>
    /\ AlignWidth = 4
    /\ Len(WritesFor(1, 1)) = 2
    /\ Len(WritesFor(1, 2)) = 1
    /\ records[2][2] = <<>>

----------------------------------------------------------------------------
(* C7 *)

\* C7: a field whose formatted value is empty is written as exactly one line: the
\* label padded to the alignment width, the bar, and nothing.
C7_EmptyValue ==
    Rendered =>
        \A i \in WrittenRecords : \A j \in 1..Len(fields) :
            Formatted(i, j) = <<>> =>
                LET ws == WritesFor(i - 1, j)
                    label == NormalizeField(fields[j])
                IN  /\ Len(ws) = 1
                    /\ ws[1].text = label \o Spaces(AlignWidth - Len(label)) \o <<SP, "|", SP>>

\* A value made of line breaks only, emptied by the caller's formatter, was
\* written as one line.
C7_Witness ==
    /\ Rendered
    /\ 1 \in WrittenRecords
    /\ Len(fields) = 1
    /\ records[1][1] = <<NL, NL>>
    /\ Formatted(1, 1) = <<>>
    /\ Len(WritesFor(0, 1)) = 1

----------------------------------------------------------------------------
(* C8 *)

\* C8: under the formatter of format_value_in_one_line, every field of every
\* record is written as exactly one line; the line holds no line break, and a
\* line break of the raw value shows in it as the two chars \n.
C8_OneLine ==
    (Rendered /\ last_value_arg = "escape_debug") =>
        /\ format_value = "escape_debug"
        /\ \A i \in WrittenRecords : \A j \in 1..Len(fields) :
               LET ws == WritesFor(i - 1, j)
               IN  /\ Len(ws) = 1
                   /\ ~HasNL(ws[1].text)
                   /\ CountNL(records[i][j]) <=
                          Cardinality({p \in 1..(Len(ws[1].text) - 1) :
                                          ws[1].text[p] = BS /\ ws[1].text[p + 1] = "n"})
        /\ Cardinality({p \in 1..Len(out) : out[p].fld > 0}) = Len(head_calls) * Len(fields)

\* A value of three line breaks was written in single-line mode.
C8_Witness ==
    /\ Rendered
    /\ last_value_arg = "escape_debug"
    /\ result = "ok"
    /\ Len(records) = 1
    /\ records[1] = <<(<<NL, NL, "b">>)>>
    /\ Len(WritesFor(0, 1)) = 1

----------------------------------------------------------------------------
(* C4 *)

\* The first record (index from 1) whose length differs from the number of
\* headers, Len(records) + 1 when there is none.
Mismatched == {i \in 1..Len(records) : Len(records[i]) # Len(fields)}
FirstMismatch ==
    IF Mismatched = {} THEN Len(records) + 1
    ELSE CHOOSE i \in Mismatched : \A k \in Mismatched : i <= k

\* C4, as claimed: new fails on a record whose length differs from the number of
\* headers, so every instance it returns holds only records of that length.
C4_AsClaimed == \A i \in 1..Len(records) : Len(records[i]) = Len(fields)

\* C4, amended: new checks nothing and returns an instance whatever the lengths
\* of the records; the check is made by fmt, which halts through its assertion
\* exactly when a stored record's length differs from the number of headers, at
\* the first such record; a fmt that returns has found every stored record as
\* long as the headers.
C4_FmtChecksShape ==
    /\ result = "none" => (out = <<>> /\ head_calls = <<>>)
    /\ result = "ok" => (Mismatched = {} /\ Len(head_calls) = Len(records))
    /\ result = "panic" => (Mismatched # {} /\ Len(head_calls) = FirstMismatch - 1)
    /\ (result # "none" /\ Mismatched # {}) => result = "panic"

\* fmt has halted on an instance new returned, at its second record.
C4_Witness ==
    /\ result = "panic"
    /\ FirstMismatch = 2
    /\ Len(records[1]) = Len(fields)

----------------------------------------------------------------------------
(* C5 *)

\* C5, as claimed: a fmt that halts on the shape check has written nothing.
C5_AsClaimed == result = "panic" => out = <<>>

\* C5, amended: a fmt that halts on the shape check at the record of index j has
\* written the whole blocks of the records 0..j-1 (the record head and at least a
\* line of every field) and nothing of the record j and of those after it.
C5_PrefixWritten ==
    result = "panic" =>
        /\ head_calls = [i \in 1..(FirstMismatch - 1) |-> i - 1]
        /\ \A p \in 1..Len(out) : out[p].rec < FirstMismatch - 1
        /\ \A i \in 1..(FirstMismatch - 1) :
               /\ Len(WritesFor(i - 1, 0)) = 1
               /\ \A j \in 1..Len(fields) : Len(WritesFor(i - 1, j)) >= 1

\* fmt halted at its second record with the block of the first one written.
C5_Witness ==
    /\ result = "panic"
    /\ FirstMismatch = 2
    /\ Len(fields) = 2
    /\ Len(out) >= 3
    /\ \E p \in 1..Len(out) : out[p].rec = 0 /\ out[p].fld = 2

----------------------------------------------------------------------------
(* C6 *)

\* The tag of a write: the record and the field it was made for.
TagLeq(a, b) == a.rec < b.rec \/ (a.rec = b.rec /\ a.fld <= b.fld)

\* C6: a fmt of n well-formed records calls the record-head formatter n times,
\* with 0, 1, ..., n-1 in this order; the result of the call for i, written as one
\* writeln!, comes right before the lines of the fields of the record i, which
\* follow in the order of the headers, and nothing else is written.
C6_RecordHeads ==
    (Rendered /\ result = "ok") =>
        /\ head_calls = [i \in 1..Len(records) |-> i - 1]
        /\ SelectSeq(out, LAMBDA w : w.fld = 0) =
               [i \in 1..Len(records) |->
                    Write(i - 1, 0, ApplyHead(format_record_splitter, i - 1))]
        /\ \A p \in 1..Len(out) :
               /\ out[p].rec \in 0..(Len(records) - 1)
               /\ out[p].fld \in 0..Len(fields)
               /\ p = 1 => out[p].fld = 0
               /\ p > 1 =>
                      /\ TagLeq(out[p - 1], out[p])
                      /\ out[p].fld = 0 => out[p - 1].rec = out[p].rec - 1
                      /\ out[p].fld > 0 =>
                             /\ out[p - 1].rec = out[p].rec
                             /\ out[p - 1].fld \in {out[p].fld - 1, out[p].fld}
        /\ \A i \in 1..Len(records) : \A j \in 1..Len(fields) :
               WritesFor(i - 1, j) # <<>>
        /\ format_record_splitter = "default_head" =>
               Cardinality({p \in 1..Len(out) :
                               \E i \in 0..(Len(records) - 1) :
                                   out[p].text = DefaultHeadText(i)})
                   = Len(records)

\* Two records of two fields were written, with the caller's record-head formatter.
C6_Witness ==
    /\ Rendered
    /\ result = "ok"
    /\ Len(records) = 2
    /\ Len(fields) = 2
    /\ format_record_splitter = "user_head"
    /\ head_calls = <<0, 1>>
    /\ Len(out) > 6

----------------------------------------------------------------------------
(* C9 *)

\* C9: fmt changes neither the headers, the records nor a formatter, and a fmt
\* that follows a fmt with no configuration call in between writes what the first
\* one wrote and ends as it ended.
C9_PureRead ==
    [][Render =>
          /\ UNCHANGED <<fields, records, format_record_splitter, format_value>>
          /\ Rendered => (out' = out /\ result' = result /\ head_calls' = head_calls)]_vars

\* fmt has written several lines under formatters the caller installed: the next
\* fmt is a second one.
C9_Witness ==
    /\ Rendered
    /\ result = "ok"
    /\ last_head_arg = "user_head"
    /\ last_value_arg = "escape_debug"
    /\ Len(records) = 2
    /\ Len(out) > 4

----------------------------------------------------------------------------
(* C10 *)

\* What the last configuration calls ask for: the record head of the record of
\* index i and the display form of a raw value, with the defaults of new ("-[
\* RECORD i ]-" and the value as it is) when no call was made.
HeadAskedFor(i) ==
    IF last_head_arg = "none" THEN DefaultHeadText(i) ELSE ApplyHead(last_head_arg, i)
ValueAskedFor(raw) ==
    IF last_value_arg = "none" THEN raw ELSE ApplyValue(last_value_arg, raw)

\* C10: the formatters installed are those of the last configuration calls (the
\* defaults of new without a call), fmt writes with them, and a configuration
\* call changes its own formatter only.
C10_LastCallWins ==
    /\ [](/\ last_head_arg # "none" => format_record_splitter = last_head_arg
          /\ last_value_arg # "none" => format_value = last_value_arg
          /\ Rendered =>
                 \A i \in WrittenRecords :
                     /\ WritesFor(i - 1, 0) = <<Write(i - 1, 0, HeadAskedFor(i - 1))>>
                     /\ \A j \in 1..Len(fields) :
                            LET ws == WritesFor(i - 1, j)
                                v == ValueAskedFor(records[i][j])
                            IN  /\ ws # <<>>
                                /\ v = <<>> => ValuePart(ws[1].text, AlignWidth) = <<>>
                                /\ v # <<>> =>
                                       JoinNL([k \in 1..Len(ws) |->
                                                  ValuePart(ws[k].text, AlignWidth)])
                                           = IF EndsWithNL(v) THEN SubSeq(v, 1, Len(v) - 1)
                                             ELSE v)
    /\ [][(\E f \in UserHeadFns : FormatRecordHead(f)) =>
              UNCHANGED <<fields, records, format_value>>]_vars
    /\ [][((\E f \in UserValueFns : FormatValue(f)) \/ FormatValueInOneLine) =>
              UNCHANGED <<fields, records, format_record_splitter>>]_vars

\* fmt has written with the caller's two formatters, the value formatter
\* changing a value.
C10_Witness ==
    /\ Rendered
    /\ result = "ok"
    /\ last_head_arg = "user_head"
    /\ last_value_arg = "user_value"
    /\ Len(records) >= 1
    /\ Len(fields) >= 1
    /\ HasNL(records[1][1])

====
